---- MODULE Spec2Model ----
(***************************************************************************)
(* Registration portal (yugamki/mun-eb): the submission workflow, the      *)
(* admin queries and the admin bulk actions, as state machines over the    *)
(* document database (repo) and the object store (store).                  *)
(*                                                                         *)
(* The repository holds two generations of the backend, and the model      *)
(* keeps both; `deploy` says which one is running:                         *)
(*   "v1"  POST /submit of src/unnamed/part_003, the admin routes of       *)
(*         src/unnamed/part_004, registrationUploads of s3Uploader.js and  *)
(*         registrationHelpers of firebase.js (lines 210-459);             *)
(*   "v2"  POST / of routes/formRoutes.js, routes/adminRoutes.js and the   *)
(*         helpers of firebase.js (lines 1-209).                           *)
(* Every awaited call is one step: the step performs the call's effect     *)
(* (or its failure) and runs the handler up to its next await.             *)
(***************************************************************************)
EXTENDS Integers, Sequences, FiniteSets, TLC

\* ---------------------------------------------------------------- bounds
MaxSubmissions == 2
MaxBulkIds == 2
MaxBulkRuns == 1
MaxAdminOps == 1
MaxMailRuns == 1
MaxTokens == 2
\* A request differs from the baseline request in at most this many fields.
MaxVariations == 2
MaxRecords == 101
MaxSegments == 2
MaxPopstates == 2
MaxDomEvents == 2

\* ------------------------------------------------------- values and inputs
Null == [null |-> TRUE]
Undefined == [undefined |-> TRUE]
\* A JavaScript number: NaN, or an integer
NaN == [nan |-> TRUE, n |-> 0]
Num(n) == [nan |-> FALSE, n |-> n]
\* A JavaScript string, where a field holds a string or a number
Str(s) == [str |-> s]

FieldOrder == <<"idCard", "munCertificates", "chairingResume">>
FieldSet == {"idCard", "munCertificates", "chairingResume"}
OptionalFields == {"munCertificates", "chairingResume"}

COMMITTEES == {"UNSC", "UNODC", "LOK SABHA", "CCC", "IPC", "DISEC"}
POSITIONS == {"Chairperson", "Vice-Chairperson", "Director"}

MiB == 1024 * 1024
MulterFileSize == 3 * MiB

MaxFileSize(fieldName) ==
  CASE fieldName = "idCard" -> 2 * MiB
    [] fieldName = "munCertificates" -> 2 * MiB
    [] fieldName = "chairingResume" -> 3 * MiB
    [] OTHER -> 0

AllowedMimeTypes == {"application/pdf"}
AllowedExtensions == {".pdf"}

\* String.prototype.toLowerCase on the characters the inputs use.
LowerChar(c) ==
  CASE c = "A" -> "a"
    [] c = "B" -> "b"
    [] c = "C" -> "c"
    [] OTHER -> c

ToLowerCase(s) == [i \in 1..Len(s) |-> LowerChar(s[i])]

\* path.extname(...).toLowerCase() of the names the inputs use.
LowerExt(ext) ==
  CASE ext = ".PDF" -> ".pdf"
    [] ext = ".Pdf" -> ".pdf"
    [] OTHER -> ext

\* A string of the request body is a tuple of one-character strings, so that
\* the pattern and the case conversion act on its characters.
IsSpaceChar(c) == c \in {" ", "\t", "\n"}

\* /^[^\s@]+@[^\s@]+\.[^\s@]+$/ : one "@", no white space, a non-empty local
\* part, and a "." inside the domain with a character on each side of it.
EmailRegexTest(s) ==
  /\ \A i \in 1..Len(s) : ~IsSpaceChar(s[i])
  /\ Cardinality({i \in 1..Len(s) : s[i] = "@"}) = 1
  /\ \E a \in 2..Len(s) :
       /\ s[a] = "@"
       /\ \E d \in (a + 2)..(Len(s) - 1) : s[d] = "."

\* JSON.parse of the raw committees / positions strings the inputs use:
\* [ok |-> FALSE] is a SyntaxError, otherwise the decoded value.
ParseJSON(raw) ==
  CASE raw = "[]" -> [ok |-> TRUE, isArray |-> TRUE, elems |-> <<>>]
    [] raw = "[\"UNSC\"]" -> [ok |-> TRUE, isArray |-> TRUE, elems |-> <<"UNSC">>]
    [] raw = "[\"XYZ\"]" -> [ok |-> TRUE, isArray |-> TRUE, elems |-> <<"XYZ">>]
    [] raw = "[\"unsc\"]" -> [ok |-> TRUE, isArray |-> TRUE, elems |-> <<"unsc">>]
    [] raw = "[\"UNSC\",\"XYZ\"]" -> [ok |-> TRUE, isArray |-> TRUE, elems |-> <<"UNSC", "XYZ">>]
    [] raw = "[\"Director\"]" -> [ok |-> TRUE, isArray |-> TRUE, elems |-> <<"Director">>]
    [] raw = "[\"Boss\"]" -> [ok |-> TRUE, isArray |-> TRUE, elems |-> <<"Boss">>]
    [] raw = "\"UNSC\"" -> [ok |-> TRUE, isArray |-> FALSE, elems |-> <<>>]
    [] OTHER -> [ok |-> FALSE, isArray |-> FALSE, elems |-> <<>>]

\* parseInt of the raw counter strings the inputs use.
ParseInt(raw) ==
  CASE raw = "0" -> Num(0)
    [] raw = "2" -> Num(2)
    [] raw = "-1" -> Num(-1)
    [] raw = "3" -> Num(3)
    [] OTHER -> NaN

\* !value of a string field of the body
Falsy(s) == s = ""

BadEmail == <<"b", "a", "d">>
GoodEmail == <<"A", "@", "b", ".", "c">>

Bodies ==
  [name : {"", "Asha"},
   email : {BadEmail, GoodEmail},
   committees : {"", "UNSC", "[]", "\"UNSC\"", "[\"UNSC\"]", "[\"XYZ\"]"},
   positions : {"[]", "Director", "[\"Director\"]", "[\"Boss\"]"},
   munsParticipated : {"abc", "-1", "2"},
   year : {"3"}]

\* What multer lets through (fileFilter: application/pdf only, fileSize <= 3MB).
PdfFile(size, ext) == [size |-> size, mimetype |-> "application/pdf", ext |-> ext]

IdCardInputs ==
  {Null, PdfFile(MiB, ".pdf"), PdfFile(2 * MiB + 1, ".pdf"), PdfFile(MiB, ".txt")}

OptionalInputs == {Null, PdfFile(MiB, ".pdf")}

FileSets ==
  [idCard : IdCardInputs, munCertificates : OptionalInputs, chairingResume : OptionalInputs]

\* The request every field of which is valid, with the idCard alone attached.
Baseline ==
  [body |-> [name |-> "Asha", email |-> GoodEmail, committees |-> "[\"UNSC\"]",
             positions |-> "[\"Director\"]", munsParticipated |-> "2",
             year |-> "3"],
   files |-> [idCard |-> PdfFile(MiB, ".pdf"), munCertificates |-> Null,
              chairingResume |-> Null]]

Variations(r) ==
  Cardinality({k \in DOMAIN r.body : r.body[k] # Baseline.body[k]})
    + Cardinality({f \in DOMAIN r.files : r.files[f] # Baseline.files[f]})

Requests == {r \in [body : Bodies, files : FileSets] : Variations(r) <= MaxVariations}

Ids == 1..(MaxSubmissions + 1)

\* ------------------------------------------------------------------ state
VARIABLES
  deploy,   \* "v1" | "v2": the generation of the backend that is running
  repo,     \* the registrations collection: id -> document, or Null
  nextId,   \* documents created so far (the database assigns fresh ids)
  store,    \* the object store: the set of keys that hold an object
  sub,      \* the submission request in flight, or the last one completed
  view,     \* what the last admin query returned
  bulk,     \* the bulk-action request in flight, or the last one completed
  adm,      \* the admin PUT or DELETE on one id in flight, or the last one completed
  mail,     \* the mailer request in flight, or the last one completed
  listing,  \* the last page of the registrations listing
  out,      \* the last result of a rendering, a file validation or a check-email
  dash      \* the admin page in the browser: its flag, its timer, its fetches

\* The admin's by-id, mailer and listing requests, which the submission and
\* the bulk action leave alone.
others == <<adm, mail, listing, out, dash>>

vars == <<deploy, repo, nextId, store, sub, view, bulk, adm, mail, listing, out, dash>>

\* Nothing evaluated yet.
NoOut == [fn |-> "none"]

\* The page before DOMContentLoaded: the globals of part_000:358-359 and
\* 414-418, no timer, no load of the dashboard begun, no fetch issued.
IdleDash ==
  [appInitialized |-> FALSE, path |-> "/", adminDashboard |-> FALSE,
   dashboardLoaded |-> FALSE, timer |-> "none", domEvents |-> 0, popstates |-> 0,
   loads |-> <<>>, statsFetches |-> 0, registrationsFetches |-> 0]

\* ------------------------------------------------------- object-store keys
\* `registrations/${registrationId}/${fieldName}/...` (s3Uploader.js:241-244)
RegistrationKey(id, fieldName) == [ns |-> "registrations", n |-> id, field |-> fieldName]

\* `id-cards/${uuidv4()}-...`, `certificates/...`, `resumes/...` (formRoutes.js)
UuidKey(n, fieldName) == [ns |-> "uuid", n |-> n, field |-> fieldName]

Url(key) == [url |-> key]
GetKeyFromUrl(fileUrl) == fileUrl.url

\* ------------------------------------------------------ attachment validator
\* A faulty variant: the validator that stops at the first rule violated.
ValidateFileFirstOnly(file, fieldName) ==
  IF file = Null THEN <<[kind |-> "required", field |-> fieldName, limitMB |-> 0]>>
  ELSE IF MaxFileSize(fieldName) # 0 /\ file.size > MaxFileSize(fieldName)
    THEN <<[kind |-> "size", field |-> fieldName, limitMB |-> MaxFileSize(fieldName) \div MiB]>>
  ELSE IF file.mimetype \notin AllowedMimeTypes
    THEN <<[kind |-> "mime", field |-> fieldName, limitMB |-> 0]>>
  ELSE IF LowerExt(file.ext) \notin AllowedExtensions
    THEN <<[kind |-> "ext", field |-> fieldName, limitMB |-> 0]>>
  ELSE <<>>

\* validateFile (s3Uploader.js:40-68)
ValidateFile(file, fieldName) ==
  IF file = Null THEN <<[kind |-> "required", field |-> fieldName, limitMB |-> 0]>>
  ELSE
  LET maxSize == MaxFileSize(fieldName)
      sizeErr == IF maxSize # 0 /\ file.size > maxSize
                 THEN <<[kind |-> "size", field |-> fieldName, limitMB |-> maxSize \div MiB]>>
                 ELSE <<>>
      mimeErr == IF file.mimetype \notin AllowedMimeTypes
                 THEN <<[kind |-> "mime", field |-> fieldName, limitMB |-> 0]>>
                 ELSE <<>>
      extErr == IF LowerExt(file.ext) \notin AllowedExtensions
                THEN <<[kind |-> "ext", field |-> fieldName, limitMB |-> 0]>>
                ELSE <<>>
  IN  sizeErr \o mimeErr \o extErr

UploadFailure(fieldName) == [kind |-> "upload", field |-> fieldName, limitMB |-> 0]

\* --------------------------------------------------------------- responses
Message(kind) == [kind |-> kind, errors |-> <<>>]

Response(status, message, data) ==
  [status |-> status, success |-> status < 400, message |-> message, data |-> data]

Call(op, ok) == [op |-> op, ok |-> ok]

IdleSub ==
  [pc |-> "idle", n |-> 0, req |-> Null, id |-> 0, j |-> 1, uploaded |-> {},
   errors |-> <<>>, up |-> [f \in FieldSet |-> "none"], resp |-> Null, trace |-> <<>>]

Respond(s, status, message, data) ==
  [s EXCEPT !.pc = "done", !.resp = Response(status, message, data)]

\* ------------------------------------------- POST /submit (part_003), "v1"
IsNonEmptyArray(v) == v.isArray /\ Len(v.elems) > 0

\* A faulty variant: the presence of the idCard is not checked.
IdCardMissingNever(req) == FALSE

\* !req.files || !req.files.idCard (part_003:48, formRoutes.js:53)
IdCardMissing(req) == req.files.idCard = Null

NumericFieldValid(raw) ==
  LET value == ParseInt(raw) IN ~(value.nan \/ value.n < 0)

\* The checks of lines 32-100, in their order; "ok" when all pass.
V1Validate(req) ==
  LET b == req.body IN
  IF Falsy(b.name) \/ Falsy(b.committees) \/ Falsy(b.positions) \/ Falsy(b.munsParticipated)
    THEN "MissingFields"
  ELSE IF IdCardMissing(req) THEN "IdCardRequired"
  ELSE IF ~EmailRegexTest(b.email) THEN "InvalidEmail"
  ELSE IF ~ParseJSON(b.committees).ok \/ ~ParseJSON(b.positions).ok THEN "InvalidFormat"
  ELSE IF ~IsNonEmptyArray(ParseJSON(b.committees)) THEN "CommitteeRequired"
  ELSE IF ~IsNonEmptyArray(ParseJSON(b.positions)) THEN "PositionRequired"
  ELSE IF ~NumericFieldValid(b.munsParticipated) THEN "NumericInvalid"
  ELSE "ok"

\* registrationData (lines 103-127) as createRegistration stores it.
V1Record(req, id) ==
  [name |-> req.body.name,
   email |-> ToLowerCase(req.body.email),
   committees |-> ParseJSON(req.body.committees).elems,
   positions |-> ParseJSON(req.body.positions).elems,
   munsParticipated |-> ParseInt(req.body.munsParticipated),
   year |-> Str(req.body.year),
   status |-> "submitted",
   submittedAt |-> [serverTimestamp |-> id],
   files |-> Undefined,
   idCardUrl |-> Undefined,
   munCertificatesUrl |-> Undefined,
   chairingResumeUrl |-> Undefined]

Descriptor(key, file) == [key |-> key, url |-> Url(key), size |-> file.size]

\* uploadedFiles of uploadRegistrationFiles: fieldName -> uploadResult
UploadedFiles(s) ==
  [f \in s.uploaded |-> Descriptor(RegistrationKey(s.id, f), s.req.files[f])]

\* The catch of the upload step (part_003:136-144): delete the registration
\* record, then answer 400 with the upload error's message.
UploadErrorMessage(s) == [kind |-> "UploadError", errors |-> s.errors]

\* A faulty variant: the 400 answer without the delete of the record.
V1OnUploadErrorNoDelete(s) ==
  [s EXCEPT !.pc = "done", !.resp = Response(400, UploadErrorMessage(s), Null)]

V1OnUploadError(s) == [s EXCEPT !.pc = "deleteReg"]

\* After the loop of uploadRegistrationFiles (s3Uploader.js:253-267).
V1AfterLoop(s) ==
  IF Len(s.errors) > 0
    THEN IF s.uploaded # {} THEN [s EXCEPT !.pc = "cleanup"]
         ELSE V1OnUploadError(s)
    ELSE [s EXCEPT !.pc = "update"]

\* The loop of uploadRegistrationFiles from entry j up to its next await.
RECURSIVE V1Loop(_)
V1Loop(s) ==
  IF s.j > Len(FieldOrder) THEN V1AfterLoop(s)
  ELSE LET f == FieldOrder[s.j]
           file == s.req.files[f]
       IN  IF file = Null THEN V1Loop([s EXCEPT !.j = @ + 1])
           ELSE LET validationErrors == ValidateFile(file, f) IN
                IF Len(validationErrors) > 0
                  THEN V1Loop([s EXCEPT !.errors = @ \o validationErrors, !.j = @ + 1])
                  ELSE [s EXCEPT !.pc = "upload"]

\* A faulty variant: the outer catch that logs and sends nothing.
V1OuterCatchSilent(s) == [s EXCEPT !.pc = "hung"]

\* The outer catch of the handler (lines 164-193): none of the special cases
\* matches an error of the database or of the object store.
V1OuterCatch(s) == Respond(s, 500, Message("ProcessingError"), Null)

CanStart == sub.pc \in {"idle", "done"} /\ sub.n < MaxSubmissions
              /\ \A f \in FieldSet : sub.up[f] # "pending"

V1Submit(req) ==
  /\ deploy = "v1"
  /\ CanStart
  /\ LET s == [IdleSub EXCEPT !.n = sub.n + 1, !.req = req]
         v == V1Validate(req)
     IN  sub' = IF v = "ok" THEN [s EXCEPT !.pc = "create"]
                ELSE Respond(s, 400, Message(v), Null)
  /\ UNCHANGED <<deploy, repo, nextId, store, view, bulk, others>>

V1Create ==
  /\ deploy = "v1"
  /\ sub.pc = "create"
  /\ \/ /\ LET id == nextId + 1 IN
             /\ repo' = [repo EXCEPT ![id] = V1Record(sub.req, id)]
             /\ nextId' = id
             /\ sub' = V1Loop([sub EXCEPT !.id = id, !.j = 1,
                                          !.trace = Append(@, Call("create", TRUE))])
        /\ UNCHANGED <<deploy, store, view, bulk, others>>
     \/ /\ sub' = V1OuterCatch([sub EXCEPT !.trace = Append(@, Call("create", FALSE))])
        /\ UNCHANGED <<deploy, repo, nextId, store, view, bulk, others>>

V1Upload ==
  /\ deploy = "v1"
  /\ sub.pc = "upload"
  /\ LET f == FieldOrder[sub.j] IN
     \/ /\ store' = store \cup {RegistrationKey(sub.id, f)}
        /\ sub' = V1Loop([sub EXCEPT !.uploaded = @ \cup {f}, !.j = @ + 1,
                                     !.trace = Append(@, Call("upload", TRUE))])
     \/ /\ store' = store
        /\ sub' = V1Loop([sub EXCEPT !.errors = Append(@, UploadFailure(f)), !.j = @ + 1,
                                     !.trace = Append(@, Call("upload", FALSE))])
  /\ UNCHANGED <<deploy, repo, nextId, view, bulk, others>>

\* deleteMultipleFiles(uploadedKeys) inside try/catch (s3Uploader.js:255-262):
\* the deletes run in parallel, each may fail, the failure is only logged.
V1Cleanup ==
  /\ deploy = "v1"
  /\ sub.pc = "cleanup"
  /\ \E failed \in SUBSET sub.uploaded :
       /\ store' = store \ {RegistrationKey(sub.id, f) : f \in sub.uploaded \ failed}
       /\ sub' = V1OnUploadError([sub EXCEPT !.trace = Append(@, Call("s3delete", failed = {}))])
  /\ UNCHANGED <<deploy, repo, nextId, view, bulk, others>>

V1DeleteReg ==
  /\ deploy = "v1"
  /\ sub.pc = "deleteReg"
  /\ \/ /\ repo' = [repo EXCEPT ![sub.id] = Null]
        /\ sub' = Respond([sub EXCEPT !.trace = Append(@, Call("delete", TRUE))], 400,
                          UploadErrorMessage(sub), Null)
     \/ /\ repo' = repo
        /\ sub' = V1OuterCatch([sub EXCEPT !.trace = Append(@, Call("delete", FALSE))])
  /\ UNCHANGED <<deploy, nextId, store, view, bulk, others>>

\* A faulty variant: the patch that loses the files.
V1PatchFilesDropped(doc, uploadedFiles) == doc

\* updateRegistration(registrationId, {files: uploadedFiles}) (lines 147-159);
\* update() of a document that no longer exists throws.
V1PatchFiles(doc, uploadedFiles) == [doc EXCEPT !.files = uploadedFiles]

V1Update ==
  /\ deploy = "v1"
  /\ sub.pc = "update"
  /\ \/ /\ repo[sub.id] # Null
        /\ repo' = [repo EXCEPT ![sub.id] = V1PatchFiles(@, UploadedFiles(sub))]
        /\ sub' = Respond([sub EXCEPT !.trace = Append(@, Call("update", TRUE))], 201,
                          Message("Submitted"),
                          [registrationId |-> sub.id, submittedAt |-> [iso |-> sub.n]])
     \/ /\ repo' = repo
        /\ sub' = V1OuterCatch([sub EXCEPT !.trace = Append(@, Call("update", FALSE))])
  /\ UNCHANGED <<deploy, nextId, store, view, bulk, others>>

\* ---------------------------------------------- POST / (formRoutes.js), "v2"
\* Lines 60-75: JSON.parse of both fields inside one try; when either throws,
\* both fall back to the raw string wrapped in an array.
V2Decode(b) ==
  LET c == IF Falsy(b.committees)
             THEN [ok |-> TRUE, isArray |-> TRUE, elems |-> <<>>]
             ELSE ParseJSON(b.committees)
      q == IF Falsy(b.positions)
             THEN [ok |-> TRUE, isArray |-> TRUE, elems |-> <<>>]
             ELSE ParseJSON(b.positions)
      wrap(raw) == [ok |-> TRUE, isArray |-> TRUE,
                    elems |-> IF Falsy(raw) THEN <<>> ELSE <<raw>>]
  IN  IF c.ok /\ q.ok THEN [committees |-> c, positions |-> q]
      ELSE [committees |-> wrap(b.committees), positions |-> wrap(b.positions)]

\* The checks of lines 41-90, in their order; "ok" when all pass.
V2Validate(req) ==
  LET b == req.body IN
  IF Falsy(b.name) THEN "MissingFields"
  ELSE IF IdCardMissing(req) THEN "IdCardRequired"
  ELSE IF ~IsNonEmptyArray(V2Decode(b).committees) THEN "CommitteeRequired"
  ELSE IF ~IsNonEmptyArray(V2Decode(b).positions) THEN "PositionRequired"
  ELSE "ok"

\* parseInt(x) || 0
ParseIntOrZero(raw) == IF ParseInt(raw).nan THEN Num(0) ELSE ParseInt(raw)

UrlOrNull(s, f) == IF s.up[f] = "ok" THEN Url(UuidKey(s.n, f)) ELSE Null

\* formData (lines 142-159) as addDocument stores it.
V2Record(s, id) ==
  [name |-> s.req.body.name,
   email |-> s.req.body.email,
   committees |-> V2Decode(s.req.body).committees.elems,
   positions |-> V2Decode(s.req.body).positions.elems,
   munsParticipated |-> ParseIntOrZero(s.req.body.munsParticipated),
   year |-> Str(s.req.body.year),
   status |-> Undefined,
   submittedAt |-> [iso |-> s.n],
   files |-> Undefined,
   idCardUrl |-> IF s.up["idCard"] = "ok" THEN Url(UuidKey(s.n, "idCard")) ELSE Undefined,
   munCertificatesUrl |-> UrlOrNull(s, "munCertificates"),
   chairingResumeUrl |-> UrlOrNull(s, "chairingResume")]

\* The catch of the handler (lines 177-184).
V2Catch(s, kind) == Respond(s, 500, Message(kind), Null)

V2Submit(req) ==
  /\ deploy = "v2"
  /\ CanStart
  /\ LET s == [IdleSub EXCEPT !.n = sub.n + 1, !.req = req]
         v == V2Validate(req)
     IN  sub' = IF v = "ok"
                  THEN [s EXCEPT !.pc = "uploads",
                                 !.up = [f \in FieldSet |->
                                           IF req.files[f] = Null THEN "none" ELSE "pending"]]
                  ELSE Respond(s, 400, Message(v), Null)
  /\ UNCHANGED <<deploy, repo, nextId, store, view, bulk, others>>

\* What the handler does when one upload promise settles while it awaits
\* Promise.all(uploadPromises) (line 139): the idCard promise rejects, the
\* promises of the optional files swallow their error.
V2AfterSettle(s, f, ok) ==
  IF s.pc # "uploads" THEN s
  ELSE IF f = "idCard" /\ ~ok THEN V2Catch(s, "FailedToUploadIdCard")
  ELSE IF \A g \in FieldSet : s.up[g] # "pending" THEN [s EXCEPT !.pc = "addDoc"]
  ELSE s

\* uploadToS3(buffer, key, mimetype) settles: the object is stored and its URL
\* returned, or the call throws. The uploads of one request run concurrently.
V2UploadSettle(f, ok) ==
  /\ deploy = "v2"
  /\ sub.up[f] = "pending"
  /\ store' = IF ok THEN store \cup {UuidKey(sub.n, f)} ELSE store
  /\ sub' = V2AfterSettle([sub EXCEPT !.up[f] = IF ok THEN "ok" ELSE "failed",
                                      !.trace = Append(@, Call("upload", ok))], f, ok)
  /\ UNCHANGED <<deploy, repo, nextId, view, bulk, others>>

V2AddDoc ==
  /\ deploy = "v2"
  /\ sub.pc = "addDoc"
  /\ \/ /\ LET id == nextId + 1 IN
             /\ repo' = [repo EXCEPT ![id] = V2Record(sub, id)]
             /\ nextId' = id
             /\ sub' = Respond([sub EXCEPT !.id = id,
                                           !.trace = Append(@, Call("create", TRUE))], 200,
                               Message("Submitted"),
                               [id |-> id, submittedAt |-> [iso |-> sub.n]])
        /\ UNCHANGED <<deploy, store, view, bulk, others>>
     \/ /\ sub' = V2Catch([sub EXCEPT !.trace = Append(@, Call("create", FALSE))],
                          "DatabaseError")
        /\ UNCHANGED <<deploy, repo, nextId, store, view, bulk, others>>

\* ------------------------------------------------------------ admin queries
\* Whether the document records its idCard and the object is in the store.
IdCardAttached(doc) ==
  \/ /\ doc.files # Undefined
     /\ "idCard" \in DOMAIN doc.files
     /\ doc.files["idCard"].key \in store
  \/ /\ doc.idCardUrl # Undefined
     /\ GetKeyFromUrl(doc.idCardUrl) \in store

\* What the admin was last answered: the query, and the registrations in it.
Returned(query, status, ids) ==
  [query |-> query, status |-> status,
   registrations |-> {[id |-> i, idCardAttached |-> IdCardAttached(repo[i])] : i \in ids}]

\* GET /registrations: getCollection / getAllRegistrations, every document
AdminList ==
  /\ view' = Returned("list", 200, {i \in Ids : repo[i] # Null})
  /\ UNCHANGED <<deploy, repo, nextId, store, sub, bulk, others>>

\* GET /registrations/:id
\* (adminRoutes.js:138-162): 404 when getDocument returns null, 500 when it throws
AdminGet(id) ==
  /\ \/ view' = Returned("get", IF repo[id] = Null THEN 404 ELSE 200,
                         {i \in {id} : repo[i] # Null})
     \/ view' = Returned("get", 500, {})
  /\ UNCHANGED <<deploy, repo, nextId, store, sub, bulk, others>>

\* GET /stats: getRegistrationStats of firebase.js:133-198 returns the head of
\* the list as recentSubmissions; registrationHelpers.getRegistrationStats
\* (firebase.js:407-449) returns counts alone.
AdminStats ==
  /\ view' = Returned("stats", 200, IF deploy = "v2" THEN {i \in Ids : repo[i] # Null} ELSE {})
  /\ UNCHANGED <<deploy, repo, nextId, store, sub, bulk, others>>

\* ------------------------------------ POST /registrations/bulk-action
\* (part_004:253-325 in "v1", adminRoutes.js:268-340 in "v2")
BulkActions == {"", "delete", "update", "archive"}

StatusPatch == [status |-> "reviewed"]

\* A timestamp of the client's making.
ClientStamp == [client |-> TRUE]

BulkData == {Null, StatusPatch, [submittedAt |-> ClientStamp]}

IdSeqs == UNION {[1..n -> 1..MaxSubmissions] : n \in 0..MaxBulkIds}

\* registrationIds of the body: an array of ids, or anything else
BulkIdInputs ==
  {[isArray |-> FALSE, elems |-> <<>>]} \cup {[isArray |-> TRUE, elems |-> s] : s \in IdSeqs}

\* data matters to 'update' alone; a request that is refused carries nothing else.
BulkRequests ==
  {r \in [action : BulkActions, registrationIds : BulkIdInputs, data : BulkData] :
     /\ r.action # "update" => r.data = Null
     /\ r.action = "" => r.registrationIds.elems = <<>>
     /\ ~r.registrationIds.isArray => r.action \in {"", "delete"}}

\* const results = { success: 0, failed: 0, errors: [] }
NewResults == [success |-> 0, failed |-> 0, errors |-> <<>>]

IdleBulk ==
  [pc |-> "idle", run |-> 0, req |-> Null, i |-> 1, registration |-> Null,
   results |-> NewResults, seen |-> <<>>, calls |-> <<>>, resp |-> Null]

BulkResponse(status, message, results) ==
  [status |-> status, success |-> status < 400, message |-> message, results |-> results]

BulkCall(op, id, ok) == [op |-> op, id |-> id, ok |-> ok]

\* One string of results.errors; id is 0 where the string names no id.
BulkError(kind, id) == [kind |-> kind, id |-> id]

CurrentId(b) == b.req.registrationIds.elems[b.i]

BulkFail(b, kind, id) ==
  [b EXCEPT !.results.failed = @ + 1,
            !.results.errors = Append(@, BulkError(kind, id))]

BulkSucceed(b) == [b EXCEPT !.results.success = @ + 1]

\* A faulty variant: the catch that records nothing.
BulkCatchSilent(b) == b

\* The catch around one id: count it failed, push `Error processing ${id}: ...`
BulkCatch(b) == BulkFail(b, "ErrorProcessing", CurrentId(b))

\* The for loop from the id at b.i up to its next await, or to res.json.
RECURSIVE BulkRun(_)
BulkRun(b) ==
  LET ids == b.req.registrationIds.elems
      nxt == [b EXCEPT !.i = @ + 1, !.registration = Null]
  IN  IF b.i > Len(ids)
        THEN [b EXCEPT !.pc = "done",
                       !.resp = BulkResponse(200, Message("BulkCompleted"), b.results)]
      ELSE IF b.req.action = "delete" THEN [b EXCEPT !.pc = "get"]
      ELSE IF b.req.action = "update"
        THEN IF b.req.data = Null
               THEN BulkRun(BulkFail(nxt, "NoData", ids[b.i]))
               ELSE [b EXCEPT !.pc = "update"]
      ELSE BulkRun(BulkFail(nxt, "UnknownAction", 0))

\* The end of one iteration that awaited: on to the next id.
BulkNext(b) == BulkRun([b EXCEPT !.i = @ + 1, !.registration = Null])

BulkAction(req) ==
  /\ bulk.pc \in {"idle", "done"}
  /\ bulk.run < MaxBulkRuns
  /\ bulk' = IF req.action = "" \/ ~req.registrationIds.isArray
               THEN [IdleBulk EXCEPT !.pc = "done", !.run = bulk.run + 1, !.req = req,
                                     !.resp = BulkResponse(400, Message("InvalidBulk"), Null)]
               ELSE BulkRun([IdleBulk EXCEPT !.run = bulk.run + 1, !.req = req])
  /\ UNCHANGED <<deploy, repo, nextId, store, sub, view, others>>

\* await getRegistration(id) / getDocument(REGISTRATIONS, id)
BulkGet ==
  /\ bulk.pc = "get"
  /\ LET id == CurrentId(bulk)
         registration == repo[id]
         b == [bulk EXCEPT !.calls = Append(@, BulkCall("get", id, TRUE)),
                           !.seen = Append(@, [id |-> id, registration |-> registration])]
     IN  \/ bulk' = IF registration = Null
                      THEN BulkNext(BulkFail(b, "NotFound", id))
                    ELSE IF registration.files # Undefined
                      THEN [b EXCEPT !.pc = "delFiles", !.registration = registration]
                    ELSE [b EXCEPT !.pc = "delDoc", !.registration = registration]
         \/ bulk' = BulkNext(BulkCatch(
                      [bulk EXCEPT !.calls = Append(@, BulkCall("get", id, FALSE))]))
  /\ UNCHANGED <<deploy, repo, nextId, store, sub, view, others>>

\* typeof fileUrl === 'string' (adminRoutes.js:19)
IsUrlString(v) == DOMAIN v = {"url"}

\* The keys deleteRegistrationFiles asks the object store to delete:
\* registrationUploads.deleteRegistrationFiles (s3Uploader.js:270-284) takes
\* the key of every descriptor, the helper of adminRoutes.js:15-32 the key
\* of every value that is a URL string.
FileKeysToDelete(files) ==
  IF deploy = "v1"
    THEN {files[f].key : f \in {g \in DOMAIN files : "key" \in DOMAIN files[g]}}
    ELSE {GetKeyFromUrl(files[f]) : f \in {g \in DOMAIN files : IsUrlString(files[g])}}

\* await deleteRegistrationFiles(registration.files): the deletes run
\* together; a failed one throws in "v1" and is logged and dropped in "v2".
BulkDelFiles ==
  /\ bulk.pc = "delFiles"
  /\ LET id == CurrentId(bulk)
         keys == FileKeysToDelete(bulk.registration.files)
     IN  \E failed \in SUBSET keys :
           LET b == [bulk EXCEPT !.calls = Append(@, BulkCall("s3delete", id, failed = {}))]
           IN  /\ store' = store \ (keys \ failed)
               /\ bulk' = IF failed # {} /\ deploy = "v1"
                            THEN BulkNext(BulkCatch(b))
                            ELSE [b EXCEPT !.pc = "delDoc"]
  /\ UNCHANGED <<deploy, repo, nextId, sub, view, others>>

\* await deleteRegistration(id) / deleteDocument(REGISTRATIONS, id)
BulkDelDoc ==
  /\ bulk.pc = "delDoc"
  /\ LET id == CurrentId(bulk) IN
     \/ /\ repo' = [repo EXCEPT ![id] = Null]
        /\ bulk' = BulkNext(BulkSucceed(
                     [bulk EXCEPT !.calls = Append(@, BulkCall("delete", id, TRUE))]))
     \/ /\ repo' = repo
        /\ bulk' = BulkNext(BulkCatch(
                     [bulk EXCEPT !.calls = Append(@, BulkCall("delete", id, FALSE))]))
  /\ UNCHANGED <<deploy, nextId, store, sub, view, others>>

\* update() merges the fields of data into the document.
UpdateDocument(doc, data) ==
  [k \in DOMAIN doc |-> IF k \in DOMAIN data THEN data[k] ELSE doc[k]]

\* await updateRegistration(id, data) / updateDocument(REGISTRATIONS, id, data);
\* update() of a document that does not exist throws.
BulkUpdate ==
  /\ bulk.pc = "update"
  /\ LET id == CurrentId(bulk) IN
     \/ /\ repo[id] # Null
        /\ repo' = [repo EXCEPT ![id] = UpdateDocument(@, bulk.req.data)]
        /\ bulk' = BulkNext(BulkSucceed(
                     [bulk EXCEPT !.calls = Append(@, BulkCall("update", id, TRUE))]))
     \/ /\ repo' = repo
        /\ bulk' = BulkNext(BulkCatch(
                     [bulk EXCEPT !.calls = Append(@, BulkCall("update", id, FALSE))]))
  /\ UNCHANGED <<deploy, nextId, store, sub, view, others>>

BulkStep == BulkGet \/ BulkDelFiles \/ BulkDelDoc \/ BulkUpdate


\* ------------------------- PUT and DELETE /registrations/:id (adminRoutes.js)
IdleAdm ==
  [pc |-> "idle", run |-> 0, op |-> "none", id |-> 0, data |-> Null,
   registration |-> Null, resp |-> Null, calls |-> <<>>]

NoListing == Null

UpdateBodies ==
  {StatusPatch, [submittedAt |-> ClientStamp], [email |-> BadEmail], [email |-> GoodEmail],
   [munsParticipated |-> "-1"], [munsParticipated |-> "2"], [year |-> "3"]}

\* delete updateData.id / .submittedAt / .createdAt (lines 171-173)
StripProtected(updateData) ==
  [k \in DOMAIN updateData \ {"id", "submittedAt", "createdAt"} |-> updateData[k]]

\* The validation of PUT (lines 175-198): "ok", or the 400 it answers.
PutValidate(updateData) ==
  IF "email" \in DOMAIN updateData /\ ~EmailRegexTest(updateData.email) THEN "InvalidEmail"
  ELSE IF "munsParticipated" \in DOMAIN updateData
          /\ ~NumericFieldValid(updateData.munsParticipated) THEN "NumericInvalid"
  ELSE IF "year" \in DOMAIN updateData /\ ~NumericFieldValid(updateData.year)
    THEN "NumericInvalid"
  ELSE "ok"

\* updateData as it reaches updateDocument: email lowercased, counters parsed.
PutNormalise(updateData) ==
  [k \in DOMAIN updateData |->
     IF k = "email" THEN ToLowerCase(updateData[k])
     ELSE IF k \in {"munsParticipated", "year"} THEN ParseInt(updateData[k])
     ELSE updateData[k]]

AdmRespond(a, status, kind) ==
  [a EXCEPT !.pc = "done", !.resp = Response(status, Message(kind), Null)]

CanAdmin == adm.pc \in {"idle", "done"} /\ adm.run < MaxAdminOps

\* DELETE /registrations/:id up to its getDocument (lines 226-231)
AdminDelete(id) ==
  /\ CanAdmin
  /\ adm' = [IdleAdm EXCEPT !.run = adm.run + 1, !.op = "delete", !.id = id, !.pc = "get"]
  /\ UNCHANGED <<deploy, repo, nextId, store, sub, view, bulk, mail, listing, out, dash>>

\* await getDocument(REGISTRATIONS, id) (lines 231-238)
AdmGet ==
  /\ adm.pc = "get"
  /\ LET registration == repo[adm.id]
         a == [adm EXCEPT !.calls = Append(@, BulkCall("get", adm.id, TRUE))]
     IN  \/ adm' = IF registration = Null THEN AdmRespond(a, 404, "NotFound")
                   ELSE IF registration.files # Undefined
                     THEN [a EXCEPT !.pc = "delFiles", !.registration = registration]
                   ELSE [a EXCEPT !.pc = "delDoc", !.registration = registration]
         \/ adm' = AdmRespond([adm EXCEPT !.calls = Append(@, BulkCall("get", adm.id, FALSE))],
                              500, "DeleteFailed")
  /\ UNCHANGED <<deploy, repo, nextId, store, sub, view, bulk, mail, listing, out, dash>>

\* await deleteRegistrationFiles(registration.files) inside its own try
\* (lines 241-248): a failure is logged and the handler goes on.
AdmDelFiles ==
  /\ adm.pc = "delFiles"
  /\ LET keys == FileKeysToDelete(adm.registration.files) IN
     \E failed \in SUBSET keys :
       /\ store' = store \ (keys \ failed)
       /\ adm' = [adm EXCEPT !.pc = "delDoc",
                             !.calls = Append(@, BulkCall("s3delete", adm.id, failed = {}))]
  /\ UNCHANGED <<deploy, repo, nextId, sub, view, bulk, mail, listing, out, dash>>

\* await deleteDocument(REGISTRATIONS, id) (lines 250-256)
AdmDelDoc ==
  /\ adm.pc = "delDoc"
  /\ \/ /\ repo' = [repo EXCEPT ![adm.id] = Null]
        /\ adm' = AdmRespond([adm EXCEPT !.calls = Append(@, BulkCall("delete", adm.id, TRUE))],
                             200, "Deleted")
     \/ /\ repo' = repo
        /\ adm' = AdmRespond([adm EXCEPT !.calls = Append(@, BulkCall("delete", adm.id, FALSE))],
                             500, "DeleteFailed")
  /\ UNCHANGED <<deploy, nextId, store, sub, view, bulk, mail, listing, out, dash>>

\* PUT /registrations/:id up to its updateDocument (lines 165-200)
AdminPut(id, body) ==
  /\ CanAdmin
  /\ LET updateData == StripProtected(body)
         a == [IdleAdm EXCEPT !.run = adm.run + 1, !.op = "put", !.id = id]
     IN  adm' = IF PutValidate(updateData) # "ok"
                  THEN AdmRespond(a, 400, PutValidate(updateData))
                  ELSE [a EXCEPT !.pc = "update", !.data = PutNormalise(updateData)]
  /\ UNCHANGED <<deploy, repo, nextId, store, sub, view, bulk, mail, listing, out, dash>>

\* await updateDocument(REGISTRATIONS, id, updateData) (lines 200-222):
\* it returns a truthy value or throws, and update() of a document that does
\* not exist throws.
AdmUpdate ==
  /\ adm.pc = "update"
  /\ \/ /\ repo[adm.id] # Null
        /\ repo' = [repo EXCEPT ![adm.id] = UpdateDocument(@, adm.data)]
        /\ adm' = AdmRespond([adm EXCEPT !.calls = Append(@, BulkCall("update", adm.id, TRUE))],
                             200, "Updated")
     \/ /\ repo' = repo
        /\ adm' = AdmRespond([adm EXCEPT !.calls = Append(@, BulkCall("update", adm.id, FALSE))],
                             500, "UpdateFailed")
  /\ UNCHANGED <<deploy, nextId, store, sub, view, bulk, mail, listing, out, dash>>

AdmStep == AdmGet \/ AdmDelFiles \/ AdmDelDoc \/ AdmUpdate

\* ------------------------------------- POST /send-mail (part_002:120-288)
\* The tokens a recipient list is made of.
Tokens == {"all", "unsc", "UNSC", "XYZ", "a@b.c"}

\* token.includes('@')
IncludesAt(token) == token = "a@b.c"

\* token.toUpperCase()
ToUpperCase(token) ==
  CASE token = "all" -> "ALL"
    [] token = "unsc" -> "UNSC"
    [] token = "a@b.c" -> "A@B.C"
    [] OTHER -> token

\* The characters of a token that is used as an address.
Characters(token) ==
  IF token = "a@b.c" THEN <<"a", "@", "b", ".", "c">> ELSE <<token>>

SmtpProviders == {"gmail", "bogus"}

TokenLists == UNION {[1..n -> Tokens] : n \in 0..MaxTokens}

MailRequests ==
  {r \in [recipients : TokenLists, content : BOOLEAN, smtpProvider : SmtpProviders] :
     (~r.content \/ r.smtpProvider = "bogus") => Len(r.recipients) = 1}

IdleMail ==
  [pc |-> "idle", run |-> 0, req |-> Null, snapshot |-> <<>>, emails |-> <<>>, i |-> 1,
   results |-> [sent |-> 0, failed |-> 0, errors |-> <<>>], log |-> <<>>, resp |-> Null]

MailEvent(ev, to, ok) == [ev |-> ev, to |-> to, ok |-> ok]

MailRespond(m, status, kind) ==
  [m EXCEPT !.pc = "done",
            !.resp = [status |-> status, success |-> status < 400,
                      message |-> Message(kind), results |-> m.results]]

\* getCollection(REGISTRATIONS, 'submittedAt', 'desc'): the documents, the
\* latest first.
RECURSIVE Descending(_, _)
Descending(docs, n) ==
  IF n = 0 THEN <<>>
  ELSE (IF docs[n] = Null THEN <<>> ELSE <<docs[n]>>) \o Descending(docs, n - 1)

GetCollection(docs) == Descending(docs, MaxSubmissions + 1)

\* A faulty variant: the first registration alone.
EmailsOfFirst(registrations) ==
  IF registrations = <<>> THEN <<>> ELSE <<Head(registrations).email>>

\* registrations.map(reg => reg.email)
RECURSIVE EmailsOf(_)
EmailsOf(registrations) ==
  IF registrations = <<>> THEN <<>>
  ELSE <<Head(registrations).email>> \o EmailsOf(Tail(registrations))

Includes(array, value) == \E k \in 1..Len(array) : array[k] = value

IsCommitteeMember(reg, code) == Includes(reg.committees, code)

\* registrations.filter(reg => reg.committees.includes(committee.toUpperCase()))
RECURSIVE FilterByCommittee(_, _)
FilterByCommittee(registrations, code) ==
  IF registrations = <<>> THEN <<>>
  ELSE (IF IsCommitteeMember(Head(registrations), code) THEN <<Head(registrations)>> ELSE <<>>)
       \o FilterByCommittee(Tail(registrations), code)

\* recipientsArray.forEach(committee => recipientEmails.push(...)) (lines 188-193)
RECURSIVE CommitteeEmails(_, _)
CommitteeEmails(recipientsArray, registrations) ==
  IF recipientsArray = <<>> THEN <<>>
  ELSE EmailsOf(FilterByCommittee(registrations, ToUpperCase(Head(recipientsArray))))
       \o CommitteeEmails(Tail(recipientsArray), registrations)

\* isSingleEmail (line 180)
IsSingleEmail(recipientsArray) ==
  Len(recipientsArray) = 1 /\ IncludesAt(recipientsArray[1])

\* createTransport, then on to the verification (lines 195-206)
MailTransport(m) ==
  IF m.emails = <<>> THEN MailRespond(m, 400, "NoRecipients")
  ELSE IF m.req.smtpProvider \notin {"gmail"} THEN MailRespond(m, 500, "SendFailed")
  ELSE [m EXCEPT !.pc = "verify"]

\* The handler up to its first await (lines 120-185)
SendMail(req) ==
  /\ mail.pc \in {"idle", "done"}
  /\ mail.run < MaxMailRuns
  /\ LET m == [IdleMail EXCEPT !.run = mail.run + 1, !.req = req] IN
     mail' = IF req.recipients = <<>> THEN MailRespond(m, 400, "RecipientsRequired")
             ELSE IF ~req.content THEN MailRespond(m, 400, "ContentRequired")
             ELSE IF Includes(req.recipients, "all") THEN [m EXCEPT !.pc = "resolve"]
             ELSE IF IsSingleEmail(req.recipients)
               THEN MailTransport([m EXCEPT !.emails = <<Characters(req.recipients[1])>>])
             ELSE [m EXCEPT !.pc = "resolve"]
  /\ UNCHANGED <<deploy, repo, nextId, store, sub, view, bulk, adm, listing, out, dash>>

\* await getCollection of the resolution (lines 174-176, 186-193)
MailResolve ==
  /\ mail.pc = "resolve"
  /\ LET registrations == GetCollection(repo) IN
     \/ mail' = MailTransport(
                  [mail EXCEPT !.snapshot = registrations,
                               !.emails = IF Includes(mail.req.recipients, "all")
                                            THEN EmailsOf(registrations)
                                            ELSE CommitteeEmails(mail.req.recipients,
                                                                 registrations)])
     \/ mail' = MailRespond(mail, 500, "SendFailed")
  /\ UNCHANGED <<deploy, repo, nextId, store, sub, view, bulk, adm, listing, out, dash>>

\* A faulty variant: the failed verification that goes on to send.
MailVerifyIgnored(m) == [m EXCEPT !.pc = "lookup", !.i = 1]

\* catch (verifyError) (lines 208-214)
MailVerifyFailed(m) == MailRespond(m, 500, "ConfigError")

\* await transporter.verify() (lines 203-215)
MailVerify ==
  /\ mail.pc = "verify"
  /\ \/ mail' = [mail EXCEPT !.pc = "lookup", !.i = 1,
                             !.log = Append(@, MailEvent("verify", <<>>, TRUE))]
     \/ mail' = MailVerifyFailed([mail EXCEPT !.log = Append(@, MailEvent("verify", <<>>, FALSE))])
  /\ UNCHANGED <<deploy, repo, nextId, store, sub, view, bulk, adm, listing, out, dash>>

\* A faulty variant: the loop that passes over the recipient after this one.
MailNextSkipping(m) ==
  IF m.i + 2 > Len(m.emails)
    THEN MailRespond([m EXCEPT !.i = @ + 2], 200, "Completed")
    ELSE [m EXCEPT !.i = @ + 2, !.pc = "lookup"]

\* The end of one recipient: the next one, or res.json (lines 226, 281-285)
MailNext(m) ==
  IF m.i + 1 > Len(m.emails)
    THEN MailRespond([m EXCEPT !.i = @ + 1], 200, "Completed")
    ELSE [m EXCEPT !.i = @ + 1, !.pc = "lookup"]

\* A faulty variant: the catch that records nothing.
MailCatchSilent(m) == m

\* catch (emailError) (lines 274-278)
MailCatch(m) ==
  [m EXCEPT !.results.failed = @ + 1,
            !.results.errors = Append(@, m.emails[m.i])]

\* await getCollection for the personalization (lines 229-230)
MailLookup ==
  /\ mail.pc = "lookup"
  /\ \/ mail' = [mail EXCEPT !.pc = "send"]
     \/ mail' = MailNext(MailCatch(
                  [mail EXCEPT !.log = Append(@, MailEvent("lookup", mail.emails[mail.i], FALSE))]))
  /\ UNCHANGED <<deploy, repo, nextId, store, sub, view, bulk, adm, listing, out, dash>>

\* await transporter.sendMail(mailOptions) (lines 261-278)
MailSend ==
  /\ mail.pc = "send"
  /\ \/ mail' = MailNext([mail EXCEPT !.results.sent = @ + 1,
                                      !.log = Append(@, MailEvent("send", mail.emails[mail.i], TRUE))])
     \/ mail' = MailNext(MailCatch(
                  [mail EXCEPT !.log = Append(@, MailEvent("send", mail.emails[mail.i], FALSE))]))
  /\ UNCHANGED <<deploy, repo, nextId, store, sub, view, bulk, adm, listing, out, dash>>

MailStep == MailResolve \/ MailVerify \/ MailLookup \/ MailSend

\* --------------------------- GET /registrations (adminRoutes.js:59-136)
\* A value of req.query: the string Str(s), or undefined when the parameter
\* is absent.

PageInputs == {Undefined, Str("1"), Str("2"), Str("3"), Str("4")}
LimitInputs == {Undefined, Str("1"), Str("2"), Str("50"), Str("100")}
Queries == [page : PageInputs, limit : LimitInputs]

\* The decimal strings of the queries.
Decimal(s) ==
  CASE s = "1" -> 1
    [] s = "2" -> 2
    [] s = "3" -> 3
    [] s = "4" -> 4
    [] s = "50" -> 50
    [] s = "100" -> 100

\* const { page = 1, limit = 50 } = req.query
DefaultTo(value, default) == IF value = Undefined THEN Num(default) ELSE value

\* The numeric coercion of `page - 1`, `* limit`, `/ limit`
ToNumber(value) == IF "str" \in DOMAIN value THEN Decimal(value.str) ELSE value.n

\* parseInt(value), of a number or of a decimal string
ParseIntOf(value) == IF "str" \in DOMAIN value THEN Decimal(value.str) ELSE value.n

\* The filtered list, n registrations long, each named by its place.
FilteredList(n) == [k \in 1..n |-> k]

Min(a, b) == IF a < b THEN a ELSE b

\* A faulty variant: the slice that takes the element at end too.
SliceInclusive(array, start, end) ==
  SubSeq(array, Min(start, Len(array)) + 1, Min(end + 1, Len(array)))

\* array.slice(start, end) for 0 <= start <= end
Slice(array, start, end) ==
  SubSeq(array, Min(start, Len(array)) + 1, Min(end, Len(array)))

\* Math.ceil(a / b) for a >= 0, b > 0
Ceil(a, b) == (a + b - 1) \div b

\* The response of lines 111-126
ListResponse(registrations, query) ==
  LET page == DefaultTo(query.page, 1)
      limit == DefaultTo(query.limit, 50)
      startIndex == (ToNumber(page) - 1) * ToNumber(limit)
      endIndex == startIndex + ParseIntOf(limit)
  IN  [status |-> 200, query |-> query, count |-> Len(registrations),
       data |-> Slice(registrations, startIndex, endIndex),
       pagination |-> [currentPage |-> ParseIntOf(page),
                       totalPages |-> Ceil(Len(registrations), ToNumber(limit)),
                       totalRecords |-> Len(registrations),
                       hasNext |-> endIndex < Len(registrations),
                       hasPrev |-> startIndex > 0]]

\* The catch of lines 129-135
ListFailed(query) ==
  [status |-> 500, query |-> query, count |-> 0, data |-> <<>>,
   pagination |-> [currentPage |-> 0, totalPages |-> 0, totalRecords |-> 0,
                   hasNext |-> FALSE, hasPrev |-> FALSE]]

\* GET /registrations, of a repository whose filtered list is n long; the
\* handler keeps nothing from one request to the next, so one request is
\* followed per behaviour.
ListRegistrations(n, query) ==
  /\ listing = NoListing
  /\ \/ listing' = ListResponse(FilteredList(n), query)
     \/ listing' = ListFailed(query)
  /\ UNCHANGED <<deploy, repo, nextId, store, sub, view, bulk, adm, mail, out, dash>>

\* ------------------------- replaceTemplateVariables (part_002:110-117)
\* A text is a sequence of segments: plain text, or the placeholder {{key}}.
Lit(s) == [ph |-> FALSE, s |-> s]
Ph(key) == [ph |-> TRUE, s |-> key]

\* The keys of templateVariables in their declaration order (lines 233-251)
VariableOrder ==
  <<"name", "email", "subject", "message", "committees", "positions", "submittedAt">>

TemplateSegments == {Lit("Hello "), Ph("name"), Ph("message"), Ph("committees")}
Templates == UNION {[1..n -> TemplateSegments] : n \in 1..MaxSegments}

\* The values: the name and the committees of the registration, the
\* admin's message; the other variables are fixed.
VariableSets ==
  [name : {<<Lit("Asha")>>, <<Ph("message")>>},
   email : {<<Lit("a@b.c")>>},
   subject : {<<Lit("Welcome")>>},
   message : {<<>>, <<Lit("Thanks")>>, <<Ph("committees")>>, <<Ph("name")>>},
   committees : {<<Lit("UNSC")>>, <<Lit("N/A")>>},
   positions : {<<Lit("Director")>>},
   submittedAt : {<<Lit("N/A")>>}]

\* result.replace(new RegExp(`{{${key}}}`, 'g'), value || '')
RECURSIVE ReplaceAll(_, _, _)
ReplaceAll(text, key, value) ==
  IF text = <<>> THEN <<>>
  ELSE (IF Head(text) = Ph(key) THEN value ELSE <<Head(text)>>)
       \o ReplaceAll(Tail(text), key, value)

\* The loop over Object.entries(variables), from entry k on
RECURSIVE ReplaceFrom(_, _, _)
ReplaceFrom(result, variables, k) ==
  IF k > Len(VariableOrder) THEN result
  ELSE ReplaceFrom(ReplaceAll(result, VariableOrder[k], variables[VariableOrder[k]]),
                   variables, k + 1)

replaceTemplateVariables(template, variables) == ReplaceFrom(template, variables, 1)

\* One rendering, of lines 253-254
Render(template, variables) ==
  /\ out = NoOut
  /\ out' = [fn |-> "render", arg |-> [template |-> template, variables |-> variables],
             result |-> replaceTemplateVariables(template, variables)]
  /\ UNCHANGED <<deploy, repo, nextId, store, sub, view, bulk, adm, mail, listing, dash>>

\* ------------------------------- validateFile on its own (s3Uploader.js)
\* The files the validator is given: multer's file objects, or none.
ValidatorFiles ==
  {Null} \cup
  [size : {MiB, 2 * MiB, 2 * MiB + 1, 3 * MiB, 3 * MiB + 1, 3 * MiB + MiB \div 2},
   mimetype : {"application/pdf", "image/png"},
   ext : {".pdf", ".PDF", ".txt"}]

\* One call of s3Helpers.validateFile(file, fieldName)
Validate(file, fieldName) ==
  /\ out = NoOut
  /\ out' = [fn |-> "validate", arg |-> [file |-> file, fieldName |-> fieldName],
             result |-> ValidateFile(file, fieldName)]
  /\ UNCHANGED <<deploy, repo, nextId, store, sub, view, bulk, adm, mail, listing, dash>>

\* ------------------ POST /check-email (part_003:228-259, formRoutes.js:219-250)
CheckEmails == {<<>>, GoodEmail, ToLowerCase(GoodEmail)}

\* queryDocuments(REGISTRATIONS, [{field: 'email', operator: '==', value}])
QueryByEmail(docs, value) == {i \in Ids : docs[i] # Null /\ docs[i].email = value}

CheckAnswer(status, exists) == [status |-> status, exists |-> exists]

\* The handler: 400 without an email, else the query with the lower-cased
\* email, which answers or throws; one request is followed per behaviour.
CheckEmail(email) ==
  /\ out = NoOut
  /\ \/ out' = [fn |-> "checkEmail", arg |-> [email |-> email],
                result |-> IF email = <<>> THEN CheckAnswer(400, FALSE)
                           ELSE CheckAnswer(200, QueryByEmail(repo, ToLowerCase(email)) # {})]
     \/ /\ email # <<>>
        /\ out' = [fn |-> "checkEmail", arg |-> [email |-> email],
                   result |-> CheckAnswer(500, FALSE)]
  /\ UNCHANGED <<deploy, repo, nextId, store, sub, view, bulk, adm, mail, listing, dash>>

\* ------------- GET /registrations?year=y (adminRoutes.js:72, 103-105)
YearQueries == {"3"}

\* registrations.filter(reg => reg.year === year), year a string of the query
YearFilter(docs, year) == {i \in Ids : docs[i] # Null /\ docs[i].year = Str(year)}

AdminListYear(year) ==
  /\ view' = Returned("listYear", 200, YearFilter(repo, year))
  /\ UNCHANGED <<deploy, repo, nextId, store, sub, bulk, others>>

\* ------------------------------ the admin page (part_000:411-445, 708-866)
Paths == {"/", "/form", "/admin"}

\* A faulty variant: the load that raises the flag only after its fetches.
loadDashboardDataFlagLate(d) ==
  IF d.dashboardLoaded THEN d
  ELSE [d EXCEPT !.loads = Append(@, "stats"), !.statsFetches = @ + 1]

\* if (dashboardLoaded) return (lines 710-713)
AlreadyLoaded(d) == d.dashboardLoaded

\* loadDashboardData up to its first await (lines 708-722): the flag, then
\* the fetch of the statistics.
loadDashboardData(d) ==
  IF AlreadyLoaded(d) THEN d
  ELSE [d EXCEPT !.dashboardLoaded = TRUE,
                 !.loads = Append(@, "stats"),
                 !.statsFetches = @ + 1]

\* initializePage (lines 845-866): on /admin with the dashboard element and
\* the flag down, the 100 ms timer.
initializePage(d) ==
  IF d.path = "/admin" /\ d.adminDashboard /\ ~d.dashboardLoaded
    THEN [d EXCEPT !.timer = "armed"]
    ELSE d

\* handleRouting (lines 428-445)
handleRouting(d) ==
  IF d.path = "/admin" /\ d.adminDashboard /\ ~d.dashboardLoaded
    THEN loadDashboardData(d)
    ELSE d

\* The DOMContentLoaded listener (lines 411-425) of a page at the given path,
\* with or without the dashboard element.
DomContentLoaded(path, hasDashboard) ==
  /\ dash.domEvents < MaxDomEvents
  /\ dash.domEvents = 0 \/ (path = dash.path /\ hasDashboard = dash.adminDashboard)
  /\ LET d == [dash EXCEPT !.domEvents = @ + 1, !.path = path,
                           !.adminDashboard = hasDashboard]
     IN  dash' = IF d.appInitialized THEN d
                 ELSE initializePage([d EXCEPT !.appInitialized = TRUE])
  /\ UNCHANGED <<deploy, repo, nextId, store, sub, view, bulk, adm, mail, listing, out>>

\* The callback of setTimeout(..., 100) (lines 854-858)
TimerFires ==
  /\ dash.timer = "armed"
  /\ LET d == [dash EXCEPT !.timer = "fired"] IN
     dash' = IF ~d.dashboardLoaded THEN loadDashboardData(d) ELSE d
  /\ UNCHANGED <<deploy, repo, nextId, store, sub, view, bulk, adm, mail, listing, out>>

\* A popstate event, the listener registered (line 532), the location at path
Popstate(path) ==
  /\ dash.appInitialized
  /\ dash.popstates < MaxPopstates
  /\ dash' = handleRouting([dash EXCEPT !.popstates = @ + 1, !.path = path])
  /\ UNCHANGED <<deploy, repo, nextId, store, sub, view, bulk, adm, mail, listing, out>>

\* await axios.get('/api/admin/stats') settles (lines 720-726): on to the
\* fetch of the registrations, or to the catch.
StatsSettle(k) ==
  /\ k \in 1..Len(dash.loads)
  /\ dash.loads[k] = "stats"
  /\ \/ dash' = [dash EXCEPT !.loads[k] = "registrations", !.registrationsFetches = @ + 1]
     \/ dash' = [dash EXCEPT !.loads[k] = "failed"]
  /\ UNCHANGED <<deploy, repo, nextId, store, sub, view, bulk, adm, mail, listing, out>>

\* await axios.get('/api/admin/registrations') settles (lines 727-764)
RegistrationsSettle(k) ==
  /\ k \in 1..Len(dash.loads)
  /\ dash.loads[k] = "registrations"
  /\ \/ dash' = [dash EXCEPT !.loads[k] = "loaded"]
     \/ dash' = [dash EXCEPT !.loads[k] = "failed"]
  /\ UNCHANGED <<deploy, repo, nextId, store, sub, view, bulk, adm, mail, listing, out>>

Init ==
  /\ deploy \in {"v1", "v2"}
  /\ repo = [i \in Ids |-> Null]
  /\ nextId = 0
  /\ store = {}
  /\ sub = IdleSub
  /\ view = Returned("none", 0, {})
  /\ bulk = IdleBulk
  /\ adm = IdleAdm
  /\ mail = IdleMail
  /\ listing = NoListing
  /\ out = NoOut
  /\ dash = IdleDash

SubmissionStep ==
  \/ V1Create
  \/ V1Upload
  \/ V1Cleanup
  \/ V1DeleteReg
  \/ V1Update
  \/ \E f \in FieldSet, ok \in BOOLEAN : V2UploadSettle(f, ok)
  \/ V2AddDoc

Next ==
  \/ \E req \in Requests : V1Submit(req)
  \/ \E req \in Requests : V2Submit(req)
  \/ SubmissionStep
  \/ AdminList
  \/ \E id \in Ids : AdminGet(id)
  \/ AdminStats

Spec == Init /\ [][Next]_vars

\* The admin's side: submissions of well-formed requests, and bulk actions.
AdminRequests ==
  {r \in Requests : /\ r.body = Baseline.body
                    /\ r.files.idCard = Baseline.files.idCard
                    /\ r.files.chairingResume = Null}

NextAdmin ==
  \/ \E req \in AdminRequests : V1Submit(req)
  \/ \E req \in AdminRequests : V2Submit(req)
  \/ SubmissionStep
  \/ \E req \in BulkRequests : BulkAction(req)
  \/ BulkStep

SpecAdmin == Init /\ [][NextAdmin]_vars

\* The admin's requests on one id, beside submissions and the admin queries.
NextOps ==
  \/ \E req \in AdminRequests : V1Submit(req)
  \/ \E req \in AdminRequests : V2Submit(req)
  \/ SubmissionStep
  \/ \E id \in Ids : AdminGet(id)
  \/ \E id \in Ids : AdminDelete(id)
  \/ \E id \in Ids, body \in UpdateBodies : AdminPut(id, body)
  \/ AdmStep

SpecOps == Init /\ [][NextOps]_vars

\* The mailer, beside submissions that name one committee or another.
MailSubmissions ==
  {[Baseline EXCEPT !.body.committees = c] :
     c \in {"[\"UNSC\"]", "[\"unsc\"]", "[\"UNSC\",\"XYZ\"]"}}
  \cup {[Baseline EXCEPT !.files.munCertificates = PdfFile(MiB, ".pdf")]}

NextMail ==
  \/ \E req \in MailSubmissions : V1Submit(req)
  \/ \E req \in MailSubmissions : V2Submit(req)
  \/ SubmissionStep
  \/ \E req \in MailRequests : SendMail(req)
  \/ MailStep

SpecMail == Init /\ [][NextMail]_vars

\* The listing, page by page.
NextList == \E n \in 0..MaxRecords, query \in Queries : ListRegistrations(n, query)

SpecList == Init /\ [][NextList]_vars

\* The submissions alone, every await of a running handler settling in the end.
NextSubmit ==
  \/ \E req \in Requests : V1Submit(req)
  \/ \E req \in Requests : V2Submit(req)
  \/ SubmissionStep

SpecSubmit == Init /\ [][NextSubmit]_vars /\ WF_vars(SubmissionStep)

\* The functions on their own: one evaluation per behaviour.
NextFn ==
  \/ \E template \in Templates, variables \in VariableSets : Render(template, variables)
  \/ \E file \in ValidatorFiles, fieldName \in FieldSet : Validate(file, fieldName)

SpecFn == Init /\ [][NextFn]_vars

\* Two deletes at once: a bulk delete and a DELETE by id, over the
\* registrations that submissions have left.
RaceSubmissions ==
  {Baseline, [Baseline EXCEPT !.files.munCertificates = PdfFile(MiB, ".pdf")]}

BulkDeletes == {r \in BulkRequests : r.action = "delete" /\ r.registrationIds.isArray
                                      /\ Len(r.registrationIds.elems) > 0}

NextRace ==
  \/ \E req \in RaceSubmissions : V1Submit(req)
  \/ \E req \in RaceSubmissions : V2Submit(req)
  \/ SubmissionStep
  \/ \E req \in BulkDeletes : BulkAction(req)
  \/ BulkGet
  \/ BulkDelFiles
  \/ BulkDelDoc
  \/ \E id \in 1..MaxSubmissions : AdminDelete(id)
  \/ AdmGet
  \/ AdmDelFiles
  \/ AdmDelDoc

SpecRace == Init /\ [][NextRace]_vars

\* Submissions, and a check of an email.
NextCheck ==
  \/ \E req \in RaceSubmissions : V1Submit(req)
  \/ \E req \in RaceSubmissions : V2Submit(req)
  \/ SubmissionStep
  \/ \E email \in CheckEmails : CheckEmail(email)

SpecCheck == Init /\ [][NextCheck]_vars

\* Submissions, admin updates of the year, and the listing by year.
YearBodies == {[year |-> "3"], StatusPatch}

NextYear ==
  \/ \E req \in RaceSubmissions : V1Submit(req)
  \/ \E req \in RaceSubmissions : V2Submit(req)
  \/ SubmissionStep
  \/ \E id \in 1..MaxSubmissions, body \in YearBodies : AdminPut(id, body)
  \/ AdmUpdate
  \/ \E year \in YearQueries : AdminListYear(year)

SpecYear == Init /\ [][NextYear]_vars

\* The admin page in the browser.
NextDash ==
  \/ \E path \in Paths, hasDashboard \in BOOLEAN : DomContentLoaded(path, hasDashboard)
  \/ TimerFires
  \/ \E path \in Paths : Popstate(path)
  \/ \E k \in 1..(MaxPopstates + 1) : StatsSettle(k)
  \/ \E k \in 1..(MaxPopstates + 1) : RegistrationsSettle(k)

SpecDash == Init /\ [][NextDash]_vars

\* =============================================================== properties
Done == sub.pc = "done"

Called(op) == \E i \in 1..Len(sub.trace) : sub.trace[i].op = op
CalledOk(op) == \E i \in 1..Len(sub.trace) : sub.trace[i] = Call(op, TRUE)
AllCallsOk == \A i \in 1..Len(sub.trace) : sub.trace[i].ok

\* The Upload step of /submit failed: the stub record exists and
\* uploadRegistrationFiles collected at least one error.
UploadStepFailed == deploy = "v1" /\ sub.id # 0 /\ Len(sub.errors) > 0

C2_AdminSeesOnlyAttached == \A v \in view.registrations : v.idCardAttached

\* C3: a request without an idCard file ends with a 400 answer, made no
\* repository create call and created no record.
C3_NoIdCardRejected ==
  (Done /\ sub.req.files.idCard = Null) =>
    /\ sub.resp.status = 400
    /\ ~Called("create")
    /\ sub.id = 0

C3_Witness ==
  /\ Done /\ sub.req.files.idCard = Null
  /\ sub.resp.message.kind = "IdCardRequired"
  /\ sub.req.files.munCertificates # Null

OptionalUploadFailed ==
  \/ \E i \in 1..Len(sub.errors) :
       sub.errors[i].kind = "upload" /\ sub.errors[i].field \in OptionalFields
  \/ \E f \in OptionalFields : sub.up[f] = "failed"

IdCardUploaded == "idCard" \in sub.uploaded \/ sub.up["idCard"] = "ok"

RepositoryCallsOk ==
  \A i \in 1..Len(sub.trace) :
    sub.trace[i].op \in {"create", "update", "delete"} => sub.trace[i].ok

\* C4: when the idCard upload succeeds and the upload of an optional
\* attachment fails (no repository call failing), the submission is
\* accepted and its record persists.
C4_OptionalFailureAccepted ==
  (Done /\ IdCardUploaded /\ OptionalUploadFailed /\ RepositoryCallsOk) =>
    /\ sub.resp.success
    /\ sub.id # 0
    /\ repo[sub.id] # Null

BoundaryKinds ==
  {"MissingFields", "IdCardRequired", "InvalidEmail", "InvalidFormat",
   "CommitteeRequired", "PositionRequired", "NumericInvalid"}

AttachmentRuleKinds == {"size", "mime", "ext"}

RejectedAtBoundary ==
  Done /\ sub.resp.status = 400 /\ sub.resp.message.kind \in BoundaryKinds

RejectedForAttachmentRule ==
  /\ Done /\ sub.resp.status = 400
  /\ \E i \in 1..Len(sub.resp.message.errors) :
       sub.resp.message.errors[i].kind \in AttachmentRuleKinds

\* C5: a submission rejected for a validation failure (a required field,
\* the idCard, the email, committees, positions, the counter, or the size,
\* type or extension of an attachment) made no repository write and no
\* object-store call.
C5_ValidationBeforeStorage ==
  (RejectedAtBoundary \/ RejectedForAttachmentRule) => sub.trace = <<>>

\* A valid submission: every field valid, the idCard a PDF within 2 MiB.
ValidRequest(req) ==
  LET b == req.body IN
  /\ b.name # ""
  /\ EmailRegexTest(b.email)
  /\ ParseJSON(b.committees).isArray /\ ParseJSON(b.committees).elems # <<>>
  /\ \A i \in 1..Len(ParseJSON(b.committees).elems) :
       ParseJSON(b.committees).elems[i] \in COMMITTEES
  /\ ParseJSON(b.positions).isArray /\ ParseJSON(b.positions).elems # <<>>
  /\ \A i \in 1..Len(ParseJSON(b.positions).elems) :
       ParseJSON(b.positions).elems[i] \in POSITIONS
  /\ ~ParseInt(b.munsParticipated).nan /\ ParseInt(b.munsParticipated).n >= 0
  /\ req.files.idCard # Null
  /\ \A f \in FieldSet :
       req.files[f] # Null =>
         /\ req.files[f].size <= MaxFileSize(f)
         /\ req.files[f].mimetype = "application/pdf"
         /\ req.files[f].ext = ".pdf"

\* The identifier the answer carries (data.registrationId of /submit,
\* data.id of formRoutes.js); 0 when it carries none.
ResponseId(resp) ==
  IF resp.data = Null THEN 0
  ELSE IF "registrationId" \in DOMAIN resp.data THEN resp.data.registrationId
  ELSE resp.data.id

IdCardRecorded(doc) ==
  \/ doc.files # Undefined /\ "idCard" \in DOMAIN doc.files
  \/ doc.idCardUrl # Undefined

OutsideEnumerations(req) ==
  \/ /\ ParseJSON(req.body.committees).isArray
     /\ \E i \in 1..Len(ParseJSON(req.body.committees).elems) :
          ParseJSON(req.body.committees).elems[i] \notin COMMITTEES
  \/ /\ ParseJSON(req.body.positions).isArray
     /\ \E i \in 1..Len(ParseJSON(req.body.positions).elems) :
          ParseJSON(req.body.positions).elems[i] \notin POSITIONS

\* C7: a submission naming a committee or a position outside the fixed
\* enumerations is rejected with a 400 answer and creates no record.
C7_EnumerationsEnforced ==
  (Done /\ OutsideEnumerations(sub.req)) =>
    /\ sub.resp.status = 400
    /\ sub.id = 0

CommitteesDecodeEmpty(req) ==
  /\ ParseJSON(req.body.committees).ok
  /\ ParseJSON(req.body.committees).isArray
  /\ ParseJSON(req.body.committees).elems = <<>>

\* C8: a submission whose committees decode to an empty array (its required
\* field, idCard and email being in order) gets a 400 answer naming the
\* committee requirement, and creates no record.
C8_EmptyCommitteesRejected ==
  (/\ Done
   /\ CommitteesDecodeEmpty(sub.req)
   /\ sub.req.body.name # ""
   /\ sub.req.files.idCard # Null
   /\ EmailRegexTest(sub.req.body.email)) =>
    /\ sub.resp.status = 400
    /\ sub.resp.message.kind = "CommitteeRequired"
    /\ sub.id = 0

BulkIds == bulk.req.registrationIds.elems

\* A bulk action that passed the check of its body.
BulkAdmitted ==
  bulk.pc # "idle" /\ bulk.req.action # "" /\ bulk.req.registrationIds.isArray

\* The call that opens the handling of an id that awaits.
OpensIteration(c) == c.op \in {"get", "update"}
OpeningCalls == SelectSeq(bulk.calls, OpensIteration)

\* C9: a bulk action handles the ids of its list once each and in the
\* list's order, a failure on one id never stops the rest, every handled
\* id is counted exactly once (success + failed), errors holds one string
\* per failed id, and the answer carries those counts for the whole list.
C9_BulkAccounting ==
  BulkAdmitted =>
    /\ bulk.i \in 1..(Len(BulkIds) + 1)
    /\ bulk.results.success + bulk.results.failed = bulk.i - 1
    /\ Len(bulk.results.errors) = bulk.results.failed
    /\ IF bulk.req.action = "delete" \/ (bulk.req.action = "update" /\ bulk.req.data # Null)
         THEN Len(OpeningCalls) = IF bulk.pc \in {"get", "update", "done"}
                                    THEN bulk.i - 1 ELSE bulk.i
         ELSE bulk.calls = <<>>
    /\ \A k \in 1..Len(OpeningCalls) : OpeningCalls[k].id = BulkIds[k]
    /\ bulk.pc = "done" =>
         /\ bulk.i = Len(BulkIds) + 1
         /\ bulk.resp.status = 200
         /\ bulk.resp.results = bulk.results
         /\ bulk.results.success + bulk.results.failed = Len(BulkIds)

C9_Witness ==
  /\ BulkAdmitted /\ bulk.pc = "done"
  /\ bulk.req.action = "delete"
  /\ Len(BulkIds) = 2
  /\ ~bulk.calls[1].ok
  /\ bulk.results.success = 1
  /\ bulk.results.failed = 1
  /\ bulk.results.errors[1] = BulkError("ErrorProcessing", BulkIds[1])

\* The object keys a registration records, whichever way it records them.
AttachmentKeys(doc) ==
  (IF doc.files = Undefined THEN {}
   ELSE {doc.files[f].key : f \in {g \in DOMAIN doc.files : "key" \in DOMAIN doc.files[g]}}
        \cup {GetKeyFromUrl(doc.files[f]) : f \in {g \in DOMAIN doc.files : IsUrlString(doc.files[g])}})
  \cup {GetKeyFromUrl(u) : u \in {v \in {doc.idCardUrl, doc.munCertificatesUrl, doc.chairingResumeUrl} :
                                   IsUrlString(v)}}

\* C10: a bulk delete of [A, B] that found A and did not find B (no call
\* of the action failing) answers {success: 1, failed: 1}, has deleted A's
\* record and every object A recorded, and reports B with one error string.
C10_BulkDeleteRemovesAttachments ==
  (/\ BulkAdmitted /\ bulk.pc = "done"
   /\ bulk.req.action = "delete"
   /\ Len(BulkIds) = 2 /\ BulkIds[1] # BulkIds[2]
   /\ Len(bulk.seen) = 2
   /\ bulk.seen[1].registration # Null
   /\ bulk.seen[2].registration = Null
   /\ \A k \in 1..Len(bulk.calls) : bulk.calls[k].ok) =>
    /\ bulk.results.success = 1
    /\ bulk.results.failed = 1
    /\ repo[BulkIds[1]] = Null
    /\ AttachmentKeys(bulk.seen[1].registration) \cap store = {}
    /\ bulk.results.errors = <<BulkError("NotFound", BulkIds[2])>>

\* The failed object deletes of a request are each followed by the delete of
\* the same id's record (or that delete is the step the request is at).
RecordDeleteFollows(r, current) ==
  \A k \in 1..Len(r.calls) :
    (r.calls[k].op = "s3delete" /\ ~r.calls[k].ok) =>
      \/ r.pc = "delDoc" /\ current = r.calls[k].id /\ k = Len(r.calls)
      \/ \E j \in (k + 1)..Len(r.calls) :
           r.calls[j].op = "delete" /\ r.calls[j].id = r.calls[k].id

\* C11: for the admin delete and the bulk delete alike, a failed delete of
\* the attachments in the object store does not block the delete of the
\* record: the handler goes on to delete it, and a bulk delete counts the id
\* a success when that delete succeeds.
C11_ObjectDeleteFailureNotBlocking ==
  /\ RecordDeleteFollows(adm, adm.id)
  /\ bulk.pc # "idle" /\ bulk.calls # <<>> =>
       RecordDeleteFollows(bulk, IF bulk.pc = "delDoc" THEN CurrentId(bulk) ELSE 0)

\* C12: the submission timestamp of an existing record never changes: no
\* step of an admin update, a bulk update or the file patch of the
\* submission alters it, whatever fields the client supplies.
C12_SubmittedAtImmutable ==
  [][\A i \in Ids :
       (repo[i] # Null /\ repo'[i] # Null) => repo'[i].submittedAt = repo[i].submittedAt]_vars

MailDone == mail.pc = "done"

IsSend(e) == e.ev = "send"
SendAttempts == SelectSeq(mail.log, IsSend)

VerifyFailed == mail.log # <<>> /\ mail.log[1] = MailEvent("verify", <<>>, FALSE)
VerifyPassed == mail.log # <<>> /\ mail.log[1] = MailEvent("verify", <<>>, TRUE)

\* C13: every send attempt of send-mail comes after a verification that
\* passed, and when the verification fails the request makes no send attempt
\* and ends with the one configuration-level 500 answer.
C13_VerifyBeforeSend ==
  /\ SendAttempts # <<>> => VerifyPassed
  /\ VerifyFailed =>
       /\ mail.log = <<MailEvent("verify", <<>>, FALSE)>>
       /\ MailDone
       /\ mail.resp.status = 500
       /\ mail.resp.message.kind = "ConfigError"
       /\ mail.results = IdleMail.results

C13_Witness ==
  /\ MailDone /\ VerifyFailed
  /\ Len(mail.emails) = 2
  /\ mail.resp.status = 500

\* The recipients the loop has dealt with, in the order it did: each one got
\* a send attempt, or its lookup failed before one.
IsHandling(e) == e.ev \in {"send", "lookup"}
Handled == SelectSeq(mail.log, IsHandling)
HandledAddresses == [k \in 1..Len(Handled) |-> Handled[k].to]

AllRequested == mail.pc # "idle" /\ Includes(mail.req.recipients, "all")

IsFailedSend(e) == e.ev = "send" /\ ~e.ok
IsOkSend(e) == e.ev = "send" /\ e.ok
IsFailedLookup(e) == e.ev = "lookup" /\ ~e.ok

\* C15: a failed send to one recipient does not stop the loop: once the
\* verification has passed the request ends with status 200 and every
\* resolved address has been dealt with, whatever the outcome of the sends
\* before it; the response carries the tally, sent being the number of sends
\* that succeeded and failed the number of recipients for which the send (or
\* the lookup before it) failed, with one error line per failure.
C15_FailedSendDoesNotStop ==
  (MailDone /\ VerifyPassed) =>
    /\ mail.resp.status = 200
    /\ mail.resp.message.kind = "Completed"
    /\ HandledAddresses = mail.emails
    /\ mail.resp.results = mail.results
    /\ mail.results.sent = Len(SelectSeq(mail.log, IsOkSend))
    /\ mail.results.failed =
         Len(SelectSeq(mail.log, IsFailedSend)) + Len(SelectSeq(mail.log, IsFailedLookup))
    /\ Len(mail.results.errors) = mail.results.failed

C15_Witness ==
  /\ MailDone /\ VerifyPassed
  /\ Len(SendAttempts) = 2
  /\ ~SendAttempts[1].ok
  /\ SendAttempts[2].ok
  /\ mail.resp.status = 200
  /\ mail.results.failed = 1 /\ mail.results.sent = 1

\* The resolution has produced its address list.
Resolved ==
  \/ mail.pc \in {"verify", "lookup", "send"}
  \/ MailDone /\ mail.resp.message.kind \in {"NoRecipients", "ConfigError", "Completed"}

MatchesIgnoringCase(reg, token) ==
  \E k \in 1..Len(reg.committees) : ToUpperCase(reg.committees[k]) = ToUpperCase(token)

RECURSIVE MembersIgnoringCase(_, _)
MembersIgnoringCase(registrations, token) ==
  IF registrations = <<>> THEN <<>>
  ELSE (IF MatchesIgnoringCase(Head(registrations), token) THEN <<Head(registrations).email>> ELSE <<>>)
       \o MembersIgnoringCase(Tail(registrations), token)

RECURSIVE EmailsByPriority(_, _)
EmailsByPriority(tokens, registrations) ==
  IF tokens = <<>> THEN <<>>
  ELSE MembersIgnoringCase(registrations, Head(tokens)) \o EmailsByPriority(Tail(tokens), registrations)

\* C16: the resolved addresses follow the priority: with 'all' in the list,
\* the email of every registration; otherwise, for a single token holding
\* '@', that token alone; otherwise, token by token, the emails of the
\* registrations one of whose committees equals the token up to case.
C16_ResolutionPriority ==
  Resolved =>
    mail.emails =
      IF Includes(mail.req.recipients, "all") THEN EmailsOf(mail.snapshot)
      ELSE IF Len(mail.req.recipients) = 1 /\ IncludesAt(mail.req.recipients[1])
        THEN <<Characters(mail.req.recipients[1])>>
      ELSE EmailsByPriority(mail.req.recipients, mail.snapshot)

\* The same, for resolutions that read upper-case committee codes only.
UpperCaseOnly ==
  \A k \in 1..Len(mail.snapshot) :
    \A j \in 1..Len(mail.snapshot[k].committees) :
      mail.snapshot[k].committees[j] = ToUpperCase(mail.snapshot[k].committees[j])

C16_ResolutionPriorityUpperCase == UpperCaseOnly => C16_ResolutionPriority

Listed == listing # NoListing /\ listing.status = 200
RequestedPage == IF listing.query.page = Undefined THEN 1 ELSE Decimal(listing.query.page.str)
RequestedLimit == IF listing.query.limit = Undefined THEN 50 ELSE Decimal(listing.query.limit.str)

\* C17: the listing returns the records at places (page-1)*limit+1 ..
\* min(page*limit, count) of the filtered list, totalRecords = count,
\* totalPages the least number of pages of limit records that hold count
\* records, hasNext exactly when page*limit < count, hasPrev exactly when
\* page > 1.
C17_Pagination ==
  (Listed /\ RequestedPage >= 1 /\ RequestedLimit > 0) =>
    LET first == (RequestedPage - 1) * RequestedLimit
        last == Min(RequestedPage * RequestedLimit, listing.count)
        p == listing.pagination
    IN  /\ Len(listing.data) = (IF last > first THEN last - first ELSE 0)
        /\ \A k \in 1..Len(listing.data) : listing.data[k] = first + k
        /\ p.currentPage = RequestedPage
        /\ p.totalRecords = listing.count
        /\ p.totalPages * RequestedLimit >= listing.count
        /\ (p.totalPages - 1) * RequestedLimit < listing.count \/ p.totalPages = 0
        /\ p.totalPages >= 0
        /\ p.hasNext <=> (RequestedPage * RequestedLimit < listing.count)
        /\ p.hasPrev <=> (RequestedPage > 1)

C17_Witness ==
  /\ Listed
  /\ listing.count = 101 /\ RequestedLimit = 50 /\ RequestedPage = 3
  /\ listing.data = <<101>>
  /\ ~listing.pagination.hasNext /\ listing.pagination.hasPrev
  /\ listing.pagination.totalPages = 3

AdmDone == adm.pc = "done"

\* The identifier of the request has never been given to a registration.
UnknownId == adm.id > nextId

AdmGetFailed == \E k \in 1..Len(adm.calls) : adm.calls[k].op = "get" /\ ~adm.calls[k].ok

AdmWrote ==
  \E k \in 1..Len(adm.calls) : adm.calls[k].op \in {"delete", "update", "s3delete"} /\ adm.calls[k].ok

\* C18: a PUT or DELETE of an identifier no registration has, once past the
\* validation of its body and with the repository answering its read, ends
\* 404 NotFound without any write to the repository or the object store; a
\* GET that returns no registration, the repository answering, ends 404.
C18_UnknownIdNotFound ==
  /\ (AdmDone /\ UnknownId /\ adm.resp.status # 400 /\ ~AdmGetFailed) =>
       /\ adm.resp.status = 404
       /\ adm.resp.message.kind = "NotFound"
       /\ ~AdmWrote
       /\ repo[adm.id] = Null
  /\ (view.query = "get" /\ view.status # 500 /\ view.registrations = {}) => view.status = 404

\* The same for DELETE and GET alone.
C18_UnknownIdNotFoundButPut ==
  (AdmDone /\ adm.op = "put") \/ C18_UnknownIdNotFound

CleanupFailed ==
  \E i \in 1..Len(sub.trace) : sub.trace[i].op \in {"delete", "s3delete"} /\ ~sub.trace[i].ok

AnsweredUploadFailure ==
  /\ sub.resp.status = 400
  /\ sub.resp.message.kind = "UploadError"
  /\ sub.resp.message.errors = sub.errors

\* C19: when the Upload step failed and a cleanup call (the delete of the
\* stub record, or the delete of the objects already uploaded) failed in its
\* turn, the request is still answered 400 with the errors of the Upload
\* step.
C19_CleanupFailureNotMasking ==
  (Done /\ UploadStepFailed /\ CleanupFailed) => AnsweredUploadFailure

\* The same for the failure of the delete of uploaded objects alone.
C19_ObjectCleanupFailureNotMasking ==
  (Done /\ UploadStepFailed /\ CleanupFailed /\ CalledOk("delete")) => AnsweredUploadFailure

\* The objects the current request has written and that are still stored.
RequestKeys ==
  {RegistrationKey(sub.id, f) : f \in FieldSet} \cup {UuidKey(sub.n, f) : f \in FieldSet}
LeftInStore == store \cap RequestKeys

V2UploadStepFailed == deploy = "v2" /\ sub.pc # "idle" /\ sub.up["idCard"] = "failed"

Settled == \A f \in FieldSet : sub.up[f] # "pending"

ObjectDeletesOk ==
  \A i \in 1..Len(sub.trace) : sub.trace[i].op = "s3delete" => sub.trace[i].ok

\* C20: once a submission whose Upload step failed has been answered and
\* its uploads have settled, and no delete of an object failed, the store
\* holds no object written by that request.
C20_NoObjectLeftAfterRejection ==
  (Done /\ Settled /\ (UploadStepFailed \/ V2UploadStepFailed) /\ ObjectDeletesOk) =>
    /\ sub.resp.status >= 400
    /\ LeftInStore = {}

\* The same for POST /submit of part_003 alone.
C20_NoObjectLeftAfterRejectionV1 ==
  (Done /\ UploadStepFailed /\ ObjectDeletesOk) =>
    /\ sub.resp.status >= 400
    /\ LeftInStore = {}

CreatedBefore(i) == \E j \in 1..(i - 1) : sub.trace[j] = Call("create", TRUE)

\* C21: every upload call of a submission comes after the successful create
\* of its record, and every object the request has stored is named by the
\* identifier of that record.
C21_CreateBeforeUpload ==
  /\ \A i \in 1..Len(sub.trace) : sub.trace[i].op = "upload" => CreatedBefore(i)
  /\ LeftInStore # {} => /\ sub.id # 0
                         /\ \A k \in LeftInStore : k = RegistrationKey(sub.id, k.field)

\* The same for POST /submit of part_003 alone.
C21_CreateBeforeUploadV1 == deploy = "v1" => C21_CreateBeforeUpload

Running == sub.pc \notin {"idle", "done"}
Accepted == sub.resp.status \in {200, 201} /\ sub.resp.success
Rejected == sub.resp.status >= 400 /\ ~sub.resp.success
Terminal == sub.resp # Null /\ (Accepted \/ Rejected) /\ ~(Accepted /\ Rejected)

\* C22: a submission that the handler has started ends, whatever the
\* validation and the repository and object-store calls do; when it has
\* ended it is Accepted or Rejected and not both; and its response is
\* written once, by the step that ends it.
C22_OneTerminalState ==
  /\ [](Done => Terminal)
  /\ [](Running => sub.resp = Null)
  /\ [][sub'.resp # sub.resp => (sub'.n = sub.n + 1 \/ (Running /\ sub'.pc = "done"))]_vars
  /\ (Running ~> Done)

C22_Witness ==
  /\ Done /\ Rejected
  /\ sub.resp.status = 500
  /\ Called("upload") /\ ~CalledOk("delete") /\ Called("delete")

InLoop == mail.pc \in {"lookup", "send"}

\* C23: the sends of one call go one at a time and in the order of the
\* resolved addresses: while the loop is at recipient i, recipients 1..i-1
\* and no others have been dealt with, each in its place, so the send to
\* recipient i starts after the send to recipient i-1 has ended.
C23_SendsSequential ==
  /\ HandledAddresses = SubSeq(mail.emails, 1, Len(Handled))
  /\ InLoop => /\ mail.i \in 1..Len(mail.emails)
               /\ Len(Handled) = mail.i - 1
  /\ (MailDone /\ VerifyPassed) => Len(Handled) = Len(mail.emails)

C23_Witness ==
  /\ mail.pc = "send" /\ mail.i = 2
  /\ Len(SendAttempts) = 1
  /\ SendAttempts[1].to = mail.emails[1]

\* Every placeholder of the original text replaced at once by its value.
RECURSIVE Simultaneous(_, _)
Simultaneous(text, variables) ==
  IF text = <<>> THEN <<>>
  ELSE (IF Head(text).ph /\ Head(text).s \in DOMAIN variables
          THEN variables[Head(text).s] ELSE <<Head(text)>>)
       \o Simultaneous(Tail(text), variables)

Rendered == out.fn = "render"

PlainValues ==
  \A key \in DOMAIN out.arg.variables :
    \A k \in 1..Len(out.arg.variables[key]) : ~out.arg.variables[key][k].ph

\* C24: the rendering, which substitutes the variables one after another in
\* declaration order, gives the text in which every placeholder of the
\* template is replaced at once by its value.
C24_PlaceholdersDoNotInteract ==
  Rendered => out.result = Simultaneous(out.arg.template, out.arg.variables)

\* The same for values that hold no placeholder.
C24_PlaceholdersDoNotInteractPlain ==
  (Rendered /\ PlainValues) =>
    out.result = Simultaneous(out.arg.template, out.arg.variables)

Validated == out.fn = "validate" /\ out.arg.file # Null

ValidatedFile == out.arg.file
SizeCeiling ==
  IF out.arg.fieldName = "chairingResume" THEN 3 * 1024 * 1024 ELSE 2 * 1024 * 1024
TooLarge == ValidatedFile.size > SizeCeiling
NotPdfType == ValidatedFile.mimetype # "application/pdf"
NotPdfName == ValidatedFile.ext \notin {".pdf", ".PDF", ".Pdf"}
Cites(kind) == \E k \in 1..Len(out.result) : out.result[k].kind = kind
Truth(b) == IF b THEN 1 ELSE 0

\* C25: for a present file the validator returns one message per rule
\* violated and no other: the size message exactly when the file is above
\* the ceiling of its field (citing 3MB for a chairingResume, 2MB
\* otherwise), the MIME-type message exactly when the type is not
\* application/pdf, whatever the extension, and the extension message exactly
\* when the name does not end in .pdf in any letter case.
C25_ValidateFileReportsAll ==
  Validated =>
    /\ Len(out.result) = Truth(TooLarge) + Truth(NotPdfType) + Truth(NotPdfName)
    /\ Cites("size") <=> TooLarge
    /\ Cites("mime") <=> NotPdfType
    /\ Cites("ext") <=> NotPdfName
    /\ \A k \in 1..Len(out.result) :
         /\ out.result[k].field = out.arg.fieldName
         /\ out.result[k].kind = "size" =>
              out.result[k].limitMB = (IF out.arg.fieldName = "chairingResume" THEN 3 ELSE 2)

C25_Witness ==
  /\ Validated
  /\ out.arg.fieldName = "chairingResume"
  /\ ValidatedFile.size = 3670016
  /\ ValidatedFile.mimetype = "image/png" /\ ValidatedFile.ext = ".pdf"
  /\ Len(out.result) = 2
  /\ out.result[1].kind = "size" /\ out.result[1].limitMB = 3
  /\ out.result[2].kind = "mime"

\* C26: once the submission requests that created them have completed, all
\* the records of the repository carry the idCard in their file metadata.
C26_RecordsCarryIdCard ==
  Done => \A i \in Ids : repo[i] # Null => IdCardRecorded(repo[i])

\* The same when every repository call of the request succeeded.
C26_RecordsCarryIdCardNoRepositoryFailure ==
  (Done /\ sub.n = 1 /\ (\A k \in 1..Len(sub.trace) :
              sub.trace[k].op \in {"delete", "update", "create"} => sub.trace[k].ok)) =>
    \A i \in Ids : repo[i] # Null => IdCardRecorded(repo[i])

IsOkDeleteOf(id, call) == call.op = "delete" /\ call.ok /\ call.id = id
BulkReportsDeleted(id) ==
  \E k \in 1..Len(bulk.calls) : IsOkDeleteOf(id, bulk.calls[k])
SingleReportsDeleted(id) ==
  adm.op = "delete" /\ adm.pc = "done" /\ adm.id = id /\ adm.resp.status = 200
SingleSuccesses == IF adm.op = "delete" /\ adm.pc = "done" /\ adm.resp.status = 200 THEN 1 ELSE 0
Removed == Cardinality({i \in 1..nextId : repo[i] = Null})

\* C27: of a bulk delete and a DELETE by id of the same identifier at most
\* one reports it deleted, and the successes the two report never number
\* more than the records that are gone from the repository.
C27_OneDeleteSucceeds ==
  /\ \A id \in Ids : ~(BulkReportsDeleted(id) /\ SingleReportsDeleted(id))
  /\ bulk.results.success + SingleSuccesses <= Removed

\* The submission just completed was accepted with an email that is the
\* given one up to letter case, and its record is in the repository.
AcceptedWith(email) ==
  /\ Done /\ Accepted
  /\ ResponseId(sub.resp) # 0
  /\ repo[ResponseId(sub.resp)] # Null
  /\ ToLowerCase(sub.req.body.email) = ToLowerCase(email)

Checks == out.fn = "none" /\ out'.fn = "checkEmail" /\ out'.result.status = 200

\* C28: a check-email that answers, for an email that is, up to letter
\* case, the email of a submission accepted before it, says exists = true.
C28_CheckEmailFindsAccepted ==
  [][(Checks /\ AcceptedWith(out'.arg.email)) => out'.result.exists]_vars

\* The same for POST /submit of part_003 alone.
C28_CheckEmailFindsAcceptedV1 ==
  [][(deploy = "v1" /\ Checks /\ AcceptedWith(out'.arg.email)) => out'.result.exists]_vars

\* The year of a record, whatever the form it is stored in.
YearOf(doc) == IF "str" \in DOMAIN doc.year THEN Decimal(doc.year.str) ELSE doc.year.n

ListsYear3 == view' # view /\ view'.query = "listYear" /\ view'.status = 200
ListedIds == {v.id : v \in view'.registrations}
Updated(i) == \E k \in 1..Len(adm.calls) : adm.calls[k] = BulkCall("update", i, TRUE)

\* C29: the listing filtered by year = 3 returns every record whose year
\* is 3, after any submissions and admin updates.
C29_YearFilterFindsRecord ==
  [][ListsYear3 =>
       \A i \in Ids : (repo[i] # Null /\ YearOf(repo[i]) = 3) => i \in ListedIds]_vars

\* The same for the records that no admin update has touched.
C29_YearFilterFindsRecordNotUpdated ==
  [][ListsYear3 =>
       \A i \in Ids : (repo[i] # Null /\ YearOf(repo[i]) = 3 /\ ~Updated(i)) => i \in ListedIds]_vars

\* C30: whatever the order of the initialisation, its timer and the
\* popstate events, the page issues each of the two fetches at most once;
\* the flag is up from the moment the first fetch is issued, and once up it
\* stays up, also after a load that failed.
C30_DashboardLoadsOnce ==
  /\ [](/\ dash.statsFetches <= 1
        /\ dash.registrationsFetches <= 1
        /\ Len(dash.loads) <= 1
        /\ dash.statsFetches > 0 => dash.dashboardLoaded)
  /\ [][dash.dashboardLoaded => dash'.dashboardLoaded]_vars

C30_Witness ==
  /\ dash.loads = <<"failed">>
  /\ dash.timer = "armed"
  /\ dash.popstates = 2
  /\ dash.path = "/admin"
  /\ dash.statsFetches = 1
  /\ dash.dashboardLoaded

====
